---- MODULE Spec2Model ----
(***************************************************************************)
(* A model of TJSONFile / TKeyJSON (src/TJSONFile.cxx, src/TKeyJSON.cxx):   *)
(* the open/close life cycle of the JSON document store, the allocation of  *)
(* key ids and cycles, and the directory tree of key entries.               *)
(*                                                                          *)
(* One TJSONFile object is operated at a time.  A driver may construct a    *)
(* new object (as create.cxx does with "new TJSONFile") without destroying  *)
(* the one before: gen counts the objects constructed so far and the        *)
(* variables f, dirs, keys describe object number gen.                      *)
(*                                                                          *)
(* Strings the code inspects character by character (mode strings, file    *)
(* names) are sequences of one-character strings.                           *)
(***************************************************************************)
EXTENDS Integers, Sequences, FiniteSets, TLC

VARIABLES
    fs,            \* the file system: path -> file
    gen,           \* number of TJSONFile objects constructed so far
    f,             \* fields of the current TJSONFile object
    dirs,          \* subdirectories (TDirectoryFile objects) of the current file
    keys,          \* directory index -> list of keys (TDirectory::fKeys); 0 is the file
    gListOfFiles,  \* gROOT->GetListOfFiles(): the constructed objects it holds
    budget,        \* bound: key entries that may still be created in this run
    issued,        \* history: key ids handed out by the current object
    cur,           \* history: how the current object was opened and left
    t,             \* the TJSONFile1 object of the tests, when one is alive
    detached,      \* keys of the current file that Delete took out of their list
    lastOp         \* history: the last operation and what it observed

vars == <<fs, gen, f, dirs, keys, gListOfFiles, budget, issued, cur, t, detached, lastOp>>

----------------------------------------------------------------------------
(* Bounds of the exploration *)

\* key entries created in one run of Spec or SpecReopen (caps fKeyCounter)
MaxKeys == 2
\* key entries created in one run of SpecKeys (caps fKeyCounter)
MaxKeyIds == 3
\* TJSONFile objects constructed in one run of SpecReopen
MaxFiles == 2
\* characters of a file name before its ending in SpecNames
MaxStem == 2
\* directory objects of one file in SpecRead
MaxDirs == 2

----------------------------------------------------------------------------
(* Character strings *)

Lower == <<"a","b","c","d","e","f","g","h","i","j","k","l","m",
           "n","o","p","q","r","s","t","u","v","w","x","y","z">>
Upper == <<"A","B","C","D","E","F","G","H","I","J","K","L","M",
           "N","O","P","Q","R","S","T","U","V","W","X","Y","Z">>

\* TString::ToUpper on one character
ToUpperChar(c) ==
    IF \E i \in 1..26 : Lower[i] = c
    THEN Upper[CHOOSE i \in 1..26 : Lower[i] = c]
    ELSE c

\* TString::ToUpper
ToUpper(s) == [i \in 1..Len(s) |-> ToUpperChar(s[i])]

\* TString::ToLower on one character
ToLowerChar(c) ==
    IF \E i \in 1..26 : Upper[i] = c
    THEN Lower[CHOOSE i \in 1..26 : Upper[i] = c]
    ELSE c

\* TString::ToLower
ToLower(s) == [i \in 1..Len(s) |-> ToLowerChar(s[i])]

\* strncmp(s, p, Len(p)) == 0
HasPrefix(s, p) == Len(s) >= Len(p) /\ SubSeq(s, 1, Len(p)) = p

kCREATE   == <<"C","R","E","A","T","E">>
kNEW      == <<"N","E","W">>
kRECREATE == <<"R","E","C","R","E","A","T","E">>
kUPDATE   == <<"U","P","D","A","T","E">>
kREAD     == <<"R","E","A","D">>
kUPLOAD   == <<"U","P","L","O","A","D">>

\* mode strings a caller passes: the five modes, the lower-case spellings of
\* create.cxx and of the header's default argument, and one that is no mode
OptionInputs ==
    { kCREATE, kNEW, kRECREATE, kUPDATE, kREAD,
      <<"r","e","c","r","e","a","t","e">>, <<"r","e","a","d">>,
      <<"A","P","P","E","N","D">> }

XmlPrefix == <<"x","m","l",":">>
FJson     == <<"f",".","j","s","o","n">>
DevNull   == <<"/","d","e","v","/","n","u","l","l">>
EmptyName == << >>

\* the paths of the file system
Paths == { FJson, DevNull }

\* file names a caller passes
FileNameInputs == { FJson, XmlPrefix \o FJson, DevNull, EmptyName }

----------------------------------------------------------------------------
(* The file system (TSystem) *)

\* the content of a file: whether it is well-formed JSON, and then its type
\* marker ("" when it has none), format version, uuid (0 is the uuid of all
\* zeros) and keys.  NoDoc is the empty content.
NoDoc == [json |-> FALSE, type |-> "", version |-> 0, uuid |-> 0, Keys |-> << >>]
\* the document an earlier session left at the path: the header the test
\* class writes, and one key
OldDoc ==
    [ json |-> TRUE, type |-> "ROOT file", version |-> 1, uuid |-> 0,
      Keys |-> << [ name |-> "old", title |-> "", cls |-> "TH1F", cycle |-> 1,
                    subdir |-> FALSE, Keys |-> << >> ] >> ]

NoFile == [exists |-> FALSE, r |-> FALSE, w |-> FALSE, rm |-> FALSE, doc |-> NoDoc]

\* a file that is not JSON, and a document of a later format version
NotJson == [NoDoc EXCEPT !.type = "garbage"]
LaterDoc == [OldDoc EXCEPT !.version = 2]

\* what may be at the path f.json when the run starts: nothing, or a file
\* with read permission r, write permission w, in a directory that allows
\* (rm) or forbids removing it, holding the old document, text that is not
\* JSON, or a document of a later version
FileProfiles ==
    { NoFile,
      [exists |-> TRUE, r |-> TRUE,  w |-> TRUE,  rm |-> TRUE,  doc |-> NotJson],
      [exists |-> TRUE, r |-> TRUE,  w |-> TRUE,  rm |-> TRUE,  doc |-> LaterDoc],
      [exists |-> TRUE, r |-> TRUE,  w |-> TRUE,  rm |-> TRUE,  doc |-> OldDoc],
      [exists |-> TRUE, r |-> TRUE,  w |-> FALSE, rm |-> TRUE,  doc |-> OldDoc],
      [exists |-> TRUE, r |-> FALSE, w |-> TRUE,  rm |-> TRUE,  doc |-> OldDoc],
      [exists |-> TRUE, r |-> TRUE,  w |-> TRUE,  rm |-> FALSE, doc |-> OldDoc] }

\* the null device: readable, writable, not removable
NullDevice == [exists |-> TRUE, r |-> TRUE, w |-> TRUE, rm |-> FALSE, doc |-> NoDoc]

kFileExists      == "kFileExists"
kWritePermission == "kWritePermission"
kReadPermission  == "kReadPermission"

\* TSystem::AccessPathName: FALSE when the path CAN be accessed in the mode
AccessPathName(disk, path, mode) ==
    IF path \notin DOMAIN disk THEN TRUE
    ELSE LET e == disk[path] IN
         ~ ( e.exists
             /\ (mode = kWritePermission => e.w)
             /\ (mode = kReadPermission  => e.r) )

\* TSystem::Unlink: removes the file when the directory allows it
Unlink(disk, path) ==
    IF path \in DOMAIN disk /\ disk[path].exists /\ disk[path].rm
    THEN [disk EXCEPT ![path] = NoFile]
    ELSE disk

----------------------------------------------------------------------------
(* The TJSONFile object *)

\* the object before construction
\* fClassIndex: the array of class uids used in the file (null before
\* InitJsonFile); fStreamerInfoNode: the node with the schema records
NullClassIndex == [ null |-> TRUE, tagged |-> {} ]
NullInfoNode == [ null |-> TRUE, infos |-> {} ]

NoStore ==
    [ fOption |-> << >>, fWritable |-> FALSE, zombie |-> FALSE, fDoc |-> "null",
      fName |-> << >>, fRealName |-> << >>, kDevNull |-> FALSE, fKeyCounter |-> 0,
      fStoreStreamerInfos |-> TRUE, fStreamerInfoNode |-> NullInfoNode,
      fClassIndex |-> NullClassIndex ]

\* mode: the mode asked for, in upper case; openedWritable: the constructor
\* left the object writable; clean: Close has been called and no key was
\* created or deleted since
NoCur == [ mode |-> << >>, openedWritable |-> FALSE, clean |-> FALSE ]

NoOp == [ op |-> "none" ]

\* TJSONFile::IsOpen
IsOpen(st) == st.fDoc # "null"

\* TJSONFile::ReadFromFile: returns kFALSE at once; the parsing code that
\* follows the return is commented out, so neither fDoc nor any key is set
ReadFromFile(st) == st

\* TJSONFile::InitJsonFile, the part that acts on the object's fields
InitJsonFile(st, create) ==
    LET st1 == [st EXCEPT !.fClassIndex = [ null |-> FALSE, tagged |-> {} ]]
    IN  IF create THEN [st1 EXCEPT !.fDoc = "null"] ELSE ReadFromFile(st1)

\* TJSONFile::SaveToFile: returns when fDoc is null; the code behind that
\* test (header fields, CombineNodesTree, WriteStreamerInfo, SaveDoc) is
\* commented out, so the file system is left as it is in both cases
SaveToFile(st, disk) ==
    IF st.fDoc = "null" THEN disk ELSE disk

\* a constructor whose RECREATE leaves the existing file where it is
RecreateKeepsFile(recreate, disk, name) == disk

\* the constructor's "if (recreate)": an existing file is unlinked
RecreateUnlink(recreate, disk, name) ==
    IF recreate /\ ~AccessPathName(disk, name, kFileExists)
    THEN Unlink(disk, name) ELSE disk

\* a constructor that never looks whether the file to create exists
\* an existence test that does not let the null device through
CreateConflictAtDevNull(create, devnull, disk, name) ==
    create /\ ~AccessPathName(disk, name, kFileExists)

CreateConflictUnseen(create, devnull, disk, name) == FALSE

\* the constructor's test "file %s already exists"
CreateConflict(create, devnull, disk, name) ==
    create /\ ~devnull /\ ~AccessPathName(disk, name, kFileExists)

\* a constructor that never asks for write permission
UpdateDeniedNever(update, disk, name) == FALSE

\* the constructor's test "no write permission, could not open file %s"
UpdateDenied(update, disk, name) ==
    update /\ AccessPathName(disk, name, kWritePermission)

\* a constructor that tests only whether the file to read exists
ReadDeniedWhenMissing(read, disk, name) ==
    read /\ AccessPathName(disk, name, kFileExists)

\* the constructor's tests "file %s does not exist" and "no read permission"
ReadDenied(read, disk, name) ==
    read /\ ( AccessPathName(disk, name, kFileExists)
              \/ AccessPathName(disk, name, kReadPermission) )

\* a constructor that takes an unknown mode for UPDATE
ModeOrUpdate(opt) ==
    IF opt \notin { kCREATE, kRECREATE, kUPDATE, kREAD } THEN kUPDATE ELSE opt

\* the constructor's "if (!create && !recreate && !update && !read)": a mode
\* string that is no mode is replaced by READ
ModeOrRead(opt) ==
    IF opt \notin { kCREATE, kRECREATE, kUPDATE, kREAD } THEN kREAD ELSE opt

\* the constructor's first step: a leading "xml:" is skipped
StripXml(filename) ==
    IF HasPrefix(filename, XmlPrefix)
    THEN SubSeq(filename, 5, Len(filename)) ELSE filename

\* TJSONFile::TJSONFile(filename, option): the fields of the new object, the
\* file system after the constructor, whether InitJsonFile ran and with
\* which argument
Construct(filename, option, disk) ==
    LET name0 == StripXml(filename)
        up    == ToUpper(option)
        opt1  == IF up = kNEW THEN kCREATE ELSE up
        opt2  == ModeOrRead(opt1)
        create0   == (opt2 = kCREATE)
        recreate0 == (opt2 = kRECREATE)
        update0   == (opt2 = kUPDATE)
        read1     == (opt2 = kREAD)
        \* support dumping to /dev/null
        devnull == name0 = DevNull /\ ~AccessPathName(disk, name0, kWritePermission)
        create2   == IF devnull THEN TRUE  ELSE create0
        recreate2 == IF devnull THEN FALSE ELSE recreate0
        update2   == IF devnull THEN FALSE ELSE update0
        read2     == IF devnull THEN FALSE ELSE read1
        opt3      == IF devnull THEN kCREATE ELSE opt2
        \* if (recreate)
        disk3   == RecreateUnlink(recreate2, disk, name0)
        create3 == create2 \/ recreate2
        opt4    == IF recreate2 THEN kCREATE ELSE opt3
        \* if (update)
        update4 == update2 /\ ~AccessPathName(disk3, name0, kFileExists)
        create4 == create3 \/ (update2 /\ AccessPathName(disk3, name0, kFileExists))
        base == [NoStore EXCEPT !.fName = name0]
        Zombie(opt, dn, d) ==
            [ store |-> [base EXCEPT !.fOption = opt, !.zombie = TRUE, !.kDevNull = dn],
              disk |-> d, init |-> FALSE, create |-> FALSE ]
    IN  IF name0 = EmptyName
        THEN Zombie(opt2, FALSE, disk)
        ELSE IF CreateConflict(create3, devnull, disk3, name0)
        THEN Zombie(opt4, devnull, disk3)
        ELSE IF UpdateDenied(update4, disk3, name0)
        THEN Zombie(opt4, devnull, disk3)
        ELSE IF ReadDenied(read2, disk3, name0)
        THEN Zombie(opt4, devnull, disk3)
        ELSE [ store |-> InitJsonFile(
                           [base EXCEPT !.fOption = opt4, !.kDevNull = devnull,
                                        !.fRealName = name0,
                                        !.fWritable = (create4 \/ update4)],
                           create4),
               disk |-> disk3, init |-> TRUE, create |-> create4 ]

\* TJSONFile::ProduceFileNames(filename, fname): the value of fname
JsonExt == <<".","j","s","o","n">>
ProduceFileNames(filename) ==
    LET fname == filename
        hasjsonext ==
            IF Len(fname) > 5
            THEN ToLower(SubSeq(fname, Len(fname) - 5 + 1, Len(fname))) = JsonExt
            ELSE FALSE
    IN  IF ~hasjsonext THEN fname \o JsonExt ELSE fname

----------------------------------------------------------------------------
(* The test class TJSONFile1 (testTJSONFile.C) *)

kCurrentFileFormatVersion == 1

\* the uuids a new object may draw (TUUID)
UUIDs == { 1, 2 }

\* no TJSONFile1 object
NoTest ==
    [ alive |-> FALSE, fFilename |-> << >>, fOption |-> << >>, fVersion |-> 0,
      fUUID |-> 0, kReproducible |-> FALSE ]

\* std::ifstream file(fFilename); file.good()
Good(disk, path) == ~AccessPathName(disk, path, kReadPermission)

\* a constructor that compares the option in any letter case
IsOption1AnyCase(option) ==
    ToUpper(option) \in { kREAD, kCREATE, kRECREATE, kUPLOAD }

\* the options the constructor of TJSONFile1 lets pass, compared as given
IsOption1(option) == option \in { kREAD, kCREATE, kRECREATE, kUPLOAD }

\* jf["JSONFile version"] > kCurrentFileFormatVersion
TooNew(version) == version > kCurrentFileFormatVersion

\* a constructor that looks at the version before the type
HeaderErrorVersionFirst(jf) ==
    IF TooNew(jf.version) THEN "File version not compatible."
    ELSE IF jf.type = "" THEN "File does not have a type."
    ELSE IF jf.type # "ROOT file" THEN "Not a ROOT File."
    ELSE ""

\* the constructor's tests on the parsed document, in their order; "" when
\* all pass
HeaderError(jf) ==
    IF jf.type = "" THEN "File does not have a type."
    ELSE IF jf.type # "ROOT file" THEN "Not a ROOT File."
    ELSE IF TooNew(jf.version) THEN "File version not compatible."
    ELSE ""

\* TJSONFile1::TJSONFile1(filename, option): the message of the exception it
\* throws ("" when it returns), whether it opened the file, whether it took
\* version and uuid from the file, and these two.  The option is compared as
\* given, the file name is used as given.
TJSONFile1Ctor(filename, option, disk) ==
    LET Throw(msg, op) == [ thrown |-> msg, opened |-> op, loaded |-> FALSE,
                            fVersion |-> 0, fUUID |-> 0 ]
    IN  IF ~IsOption1(option)
        THEN Throw("Not an option.", FALSE)
        ELSE IF option # kREAD
        THEN Throw("", FALSE)
        ELSE IF ~Good(disk, filename)
        THEN Throw("File does not exist.", TRUE)
        ELSE LET jf == disk[filename].doc IN
             IF ~jf.json
             THEN Throw("parse error", TRUE)
             ELSE IF HeaderError(jf) # ""
             THEN Throw(HeaderError(jf), TRUE)
             ELSE [ thrown |-> "", opened |-> TRUE, loaded |-> TRUE,
                    fVersion |-> jf.version, fUUID |-> jf.uuid ]

\* the keys of the file demo.root the destructor copies: none, or one
DemoKeys ==
    { << >>,
      << [ name |-> "demo", title |-> "", cls |-> "TH1F", cycle |-> 1,
           subdir |-> FALSE, Keys |-> << >> ] >> }

\* std::ofstream on path, then the document streamed into it: a missing file
\* is created, an existing one is overwritten when it may be written, the
\* null device keeps nothing
WriteFile(disk, path, doc) ==
    IF path = EmptyName \/ path = DevNull THEN disk
    ELSE IF path \in DOMAIN disk /\ disk[path].exists /\ ~disk[path].w THEN disk
    ELSE [ x \in DOMAIN disk \cup {path} |->
             IF x # path THEN disk[x]
             ELSE IF path \in DOMAIN disk /\ disk[path].exists
             THEN [disk[path] EXCEPT !.doc = doc]
             ELSE [exists |-> TRUE, r |-> TRUE, w |-> TRUE, rm |-> TRUE, doc |-> doc] ]

----------------------------------------------------------------------------
(* Keys (TKeyJSON) and directories *)

NullName == "<null>"

\* the objects a caller writes
Objects == { [name |-> "hist", title |-> "the histo", cls |-> "TH1F"],
             [name |-> "leaf", title |-> "a leaf",    cls |-> "TH1D"] }

\* the JSON node of a key (fKeyNode); present = FALSE is the null pointer,
\* title = "" an absent "title", Object = "" an absent "Object", else the
\* _typename of the payload
NoNode == [present |-> FALSE, name |-> "", title |-> "", cycle |-> 0, Object |-> ""]
EmptyNode == [NoNode EXCEPT !.present = TRUE]

EmptyKeys == [d \in {0} |-> << >>]

MinOf(S) == CHOOSE x \in S : \A y \in S : x <= y
MaxOf(S) == CHOOSE x \in S : \A y \in S : x >= y

InsertAt(list, i, x) == SubSeq(list, 1, i - 1) \o <<x>> \o SubSeq(list, i, Len(list))
\* a removal that drops the last key of the list, whichever key is given
RemoveLast(list, i) == SubSeq(list, 1, Len(list) - 1)

\* TList::Remove of the i-th key
RemoveAt(list, i) == SubSeq(list, 1, i - 1) \o SubSeq(list, i + 1, Len(list))

\* TDirectoryFile::AppendKey (ROOT's directory, called at TKeyJSON.cxx:104
\* and :132): a key with a new name is added at the end and gets cycle 1; a
\* key whose name exists is inserted before the first key of that name and
\* gets that key's cycle + 1.  Returns the list, the place and the cycle.
AppendKey(list, key) ==
    LET same == { i \in 1..Len(list) : list[i].name = key.name }
    IN  IF same = {}
        THEN [ list |-> Append(list, key), pos |-> Len(list) + 1, cycle |-> 1 ]
        ELSE [ list |-> InsertAt(list, MinOf(same), key), pos |-> MinOf(same),
               cycle |-> list[MinOf(same)].cycle + 1 ]

\* TKeyJSON::StoreKeyAttributes: the node is REPLACED by a fresh object that
\* holds name, cycle and (when not empty) title
StoreKeyAttributes(key) ==
    IF ~key.node.present THEN key
    ELSE [key EXCEPT !.node = [present |-> TRUE, name |-> key.name,
                               title |-> key.title, cycle |-> key.cycle,
                               Object |-> ""]]

\* a StoreObject that stores the attributes and no payload
StoreObjectAttributesOnly(key, obj, cl, check_tobj) ==
    IF ~key.node.present THEN key ELSE StoreKeyAttributes(key)

\* TKeyJSON::StoreObject(obj, cl, check_tobj); cl = "" is the null class
StoreObject(key, obj, cl, check_tobj) ==
    IF ~key.node.present THEN key
    ELSE LET actual == IF check_tobj THEN obj.cls ELSE cl
             k1 == StoreKeyAttributes(key)
             k2 == [k1 EXCEPT !.node.Object = actual]
         IN  IF actual # "" THEN [k2 EXCEPT !.cls = actual] ELSE k2

\* a constructor that appends the key but never takes the cycle AppendKey returns
KeyBuildCycleOne(list, keyid, kname, ktitle, cls0, obj, cl, check_tobj) ==
    LET k0 == [ id |-> keyid, name |-> kname, title |-> ktitle, cycle |-> 0,
                cls |-> cls0, subdir |-> FALSE, node |-> NoNode ]
        a  == AppendKey(list, k0)
        k1 == [k0 EXCEPT !.cycle = 1, !.node = EmptyNode]
        k2 == StoreObject(k1, obj, cl, check_tobj)
    IN  [ list |-> [a.list EXCEPT ![a.pos] = k2], pos |-> a.pos, key |-> k2 ]

\* the part of both constructors after the name is set
KeyBuild(list, keyid, kname, ktitle, cls0, obj, cl, check_tobj) ==
    LET k0 == [ id |-> keyid, name |-> kname, title |-> ktitle, cycle |-> 0,
                cls |-> cls0, subdir |-> FALSE, node |-> NoNode ]
        a  == AppendKey(list, k0)
        k1 == [k0 EXCEPT !.cycle = a.cycle, !.node = EmptyNode]
        k2 == StoreObject(k1, obj, cl, check_tobj)
    IN  [ list |-> [a.list EXCEPT ![a.pos] = k2], pos |-> a.pos, key |-> k2 ]

\* TKeyJSON::TKeyJSON(mother, keyid, const TObject *obj, name, title)
TKeyJSON1(list, keyid, obj, name, title) ==
    KeyBuild(list, keyid,
             IF name # NullName THEN name ELSE obj.name,
             IF title # NullName THEN title ELSE "",
             IF name # NullName THEN "" ELSE obj.cls,
             obj, "", TRUE)

\* TKeyJSON::TKeyJSON(mother, keyid, const void *obj, const TClass *cl, name, title)
TKeyJSON2(list, keyid, obj, cl, name, title) ==
    KeyBuild(list, keyid,
             IF name # NullName /\ name # "" THEN name
             ELSE IF cl # "" THEN cl ELSE "Noname",
             IF title # NullName THEN title ELSE "",
             "", obj, cl, FALSE)

\* TJSONFile::FindKeyDir: the first directory in motherdir's list whose seek
\* equals keyid; -1 is the null pointer
FindKeyDir(motherdir, keyid) ==
    LET hit == { i \in 1..Len(dirs) :
                   dirs[i].mother = motherdir /\ dirs[i].seekDir = keyid }
    IN  IF hit = {} THEN -1 ELSE MinOf(hit)

\* TJSONFile::FindDirKey: the place, in the list of dir's mother, of the first
\* key whose id is dir's seek; 0 is the null pointer
FindDirKey(dir) ==
    LET list == keys[dirs[dir].mother]
        hit  == { i \in 1..Len(list) : list[i].id = dirs[dir].seekDir }
    IN  IF hit = {} THEN 0 ELSE MinOf(hit)

\* The document tree below directory d as the save is documented to link it
\* (CombineNodesTree): the keys of d in list order, a subdirectory key
\* holding the tree of its directory
RECURSIVE Tree(_)
Tree(d) ==
    [ i \in 1..Len(keys[d]) |->
        LET k == keys[d][i]
            sub == IF k.subdir THEN FindKeyDir(d, k.id) ELSE -1
        IN  [ name |-> k.name, title |-> k.title, cls |-> k.cls, cycle |-> k.cycle,
              subdir |-> k.subdir,
              Keys |-> IF sub > 0 THEN Tree(sub) ELSE << >> ] ]

----------------------------------------------------------------------------
(* Initial state *)

Init ==
    /\ \E p \in FileProfiles : fs = [x \in Paths |-> IF x = DevNull THEN NullDevice ELSE p]
    /\ gen = 0
    /\ f = NoStore
    /\ dirs = << >>
    /\ keys = EmptyKeys
    /\ gListOfFiles = {}
    /\ budget = MaxKeys
    /\ issued = {}
    /\ cur = NoCur
    /\ t = NoTest
    /\ detached = {}
    /\ lastOp = NoOp

----------------------------------------------------------------------------
(* Operations *)

\* new TJSONFile(filename, option): the new object becomes the current one
Constructed(filename, option) ==
    /\ LET c == Construct(filename, option, fs) IN
        /\ fs' = c.disk
        /\ f' = c.store
        \* InitJsonFile: gROOT->GetListOfFiles()->Add(this)
        /\ gListOfFiles' = IF c.init THEN gListOfFiles \cup {gen + 1} ELSE gListOfFiles
        /\ lastOp' = [ op |-> "Open", filename |-> filename, option |-> option,
                       before |-> fs, listBefore |-> gListOfFiles,
                       init |-> c.init, create |-> c.create,
                       prevPath |-> f.fRealName, prevMode |-> cur.mode,
                       prevClean |-> cur.clean, prevTree |-> Tree(0) ]
        /\ cur' = [ mode |-> ToUpper(option), openedWritable |-> c.store.fWritable,
                    clean |-> FALSE ]
    /\ gen' = gen + 1
    /\ dirs' = << >>
    /\ keys' = EmptyKeys
    /\ issued' = {}
    /\ detached' = {}
    /\ UNCHANGED <<budget, t>>

\* the first TJSONFile of a session
Open(filename, option) ==
    /\ gen = 0
    /\ Constructed(filename, option)

\* a further TJSONFile, constructed while the one before still exists
OpenNext(filename, option) ==
    /\ gen > 0
    /\ gen < MaxFiles
    /\ Constructed(filename, option)

\* TJSONFile::Close
Close ==
    /\ gen > 0
    /\ IF ~IsOpen(f)
       THEN UNCHANGED <<fs, f, dirs, keys, gListOfFiles>>
       ELSE /\ fs' = IF f.fWritable THEN SaveToFile(f, fs) ELSE fs
            /\ f' = [f EXCEPT !.fWritable = FALSE, !.fDoc = "null",
                              !.fClassIndex = NullClassIndex,
                              !.fStreamerInfoNode = NullInfoNode]
            \* TDirectoryFile::Close deletes the directory structures
            /\ dirs' = << >>
            /\ keys' = EmptyKeys
            /\ gListOfFiles' = gListOfFiles \ {gen}
    /\ cur' = [cur EXCEPT !.clean = TRUE]
    /\ lastOp' = [ op |-> "Close", nth |-> IF lastOp.op = "Close" THEN 2 ELSE 1,
                   wasOpen |-> IsOpen(f), wasWritable |-> f.fWritable,
                   tree |-> Tree(0), before |-> fs, fBefore |-> f,
                   listBefore |-> gListOfFiles ]
    /\ UNCHANGED <<gen, budget, issued, t, detached>>

\* a ReOpen that takes every mode
ReOpenRejectsNone(opt) == FALSE

\* ReOpen's test "mode must be either READ or UPDATE"
ReOpenRejects(opt) == opt # kREAD /\ opt # kUPDATE

\* a ReOpen that never sets the writable flag
WritableAfterReOpenNever(opt) == FALSE

\* the writable flag ReOpen sets: SetWritable(kFALSE) for READ, else
\* SetWritable(kTRUE)
WritableAfterReOpen(opt) == opt # kREAD

\* TJSONFile::ReOpen(mode); the result is lastOp'.result
ReOpen(mode) ==
    /\ gen > 0
    /\ LET opt == ToUpper(mode)
           Done(res) == [ op |-> "ReOpen", mode |-> mode, result |-> res,
                          wasWritable |-> f.fWritable, tree |-> Tree(0) ]
       IN
       IF ReOpenRejects(opt)
       THEN /\ lastOp' = Done(1)
            /\ UNCHANGED <<fs, f>>
       ELSE IF opt = f.fOption \/ (opt = kUPDATE /\ f.fOption = kCREATE)
       THEN /\ lastOp' = Done(1)
            /\ UNCHANGED <<fs, f>>
       ELSE /\ fs' = IF opt = kREAD /\ IsOpen(f) /\ f.fWritable
                     THEN SaveToFile(f, fs) ELSE fs
            /\ f' = [f EXCEPT !.fOption = opt, !.fWritable = WritableAfterReOpen(opt)]
            /\ lastOp' = Done(0)
    /\ UNCHANGED <<gen, dirs, keys, gListOfFiles, budget, issued, cur, t, detached>>

\* an id taken from the number of keys the file holds, not from the counter
NextKeyIdFromLists(st) ==
    1 + Cardinality(UNION { { <<d, i>> : i \in 1..Len(keys[d]) } : d \in DOMAIN keys })

\* the id a new key gets: ++fKeyCounter
NextKeyId(st) == st.fKeyCounter + 1

\* what every creation of a key records
Created(op, d, b) ==
    /\ f' = [f EXCEPT !.fKeyCounter = b.key.id]
    /\ issued' = issued \cup {b.key.id}
    /\ budget' = budget - 1
    /\ cur' = [cur EXCEPT !.clean = FALSE]
    /\ lastOp' = [ op |-> op, dir |-> d, id |-> b.key.id ]

\* TJSONFile::CreateKey(mother, const TObject *obj, name, bufsize)
CreateKey(mother, obj, name) ==
    /\ gen > 0
    /\ budget > 0
    /\ mother \in DOMAIN keys
    /\ LET b == TKeyJSON1(keys[mother], NextKeyId(f), obj, name, NullName) IN
        /\ keys' = [keys EXCEPT ![mother] = b.list]
        /\ Created("CreateKey", mother, b)
    /\ UNCHANGED <<fs, gen, dirs, gListOfFiles, t, detached>>

\* TJSONFile::CreateKey(mother, const void *obj, const TClass *cl, name, bufsize)
CreateKeyAny(mother, obj, cl, name) ==
    /\ gen > 0
    /\ budget > 0
    /\ mother \in DOMAIN keys
    /\ LET b == TKeyJSON2(keys[mother], NextKeyId(f), obj, cl, name, NullName) IN
        /\ keys' = [keys EXCEPT ![mother] = b.list]
        /\ Created("CreateKeyAny", mother, b)
    /\ UNCHANGED <<fs, gen, dirs, gListOfFiles, t, detached>>

\* TJSONFile::DirCreateEntry(dir), as the constructor of a TDirectoryFile
\* named name in directory mother calls it: the new directory is appended to
\* mother's list and the returned id becomes its seek
DirCreateEntry(mother, name, title) ==
    /\ gen > 0
    /\ budget > 0
    /\ mother \in DOMAIN keys
    /\ LET dirobj == [name |-> name, title |-> title, cls |-> "TDirectoryFile"]
           b0 == TKeyJSON1(keys[mother], NextKeyId(f), dirobj, name, title)
           k  == [b0.key EXCEPT !.subdir = TRUE]
           b  == [b0 EXCEPT !.key = k, !.list[b0.pos] = k]
           d  == Len(dirs) + 1
       IN
        /\ keys' = [ x \in DOMAIN keys \cup {d} |->
                       IF x = d THEN << >>
                       ELSE IF x = mother THEN b.list ELSE keys[x] ]
        /\ dirs' = Append(dirs, [ name |-> name, title |-> title, mother |-> mother,
                                  seekDir |-> k.id ])
        /\ Created("DirCreateEntry", mother, b)
    /\ UNCHANGED <<fs, gen, gListOfFiles, t, detached>>

\* TJSONFile1 file(filename, option), as the tests construct it before any
\* TJSONFile exists; the outcome is lastOp'.thrown.  An exception leaves no
\* object.
NewTJSONFile1(filename, option) ==
    /\ gen = 0
    /\ ~t.alive
    /\ LET c == TJSONFile1Ctor(filename, option, fs) IN
        /\ \E u \in UUIDs :
             t' = IF c.thrown # "" THEN t
                  ELSE [ alive |-> TRUE, fFilename |-> filename, fOption |-> option,
                         fVersion |-> c.fVersion,
                         fUUID |-> IF c.loaded THEN c.fUUID ELSE u,
                         kReproducible |-> FALSE ]
        /\ lastOp' = [ op |-> "TJSONFile1", filename |-> filename, option |-> option,
                       before |-> fs, thrown |-> c.thrown, opened |-> c.opened,
                       loaded |-> c.loaded, fVersion |-> c.fVersion, fUUID |-> c.fUUID,
                       \* the object destroyed just before, and whether its
                       \* destructor changed a file
                       writer |-> IF lastOp.op = "~TJSONFile1" THEN lastOp.was ELSE NoTest,
                       written |-> IF lastOp.op = "~TJSONFile1"
                                   THEN lastOp.before # fs ELSE FALSE ]
    /\ UNCHANGED <<fs, gen, f, dirs, keys, gListOfFiles, budget, issued, cur, detached>>

\* file.SetBit(TFile::kReproducible) on the TJSONFile1 object
SetBitReproducible ==
    /\ t.alive
    /\ ~t.kReproducible
    /\ t' = [t EXCEPT !.kReproducible = TRUE]
    /\ lastOp' = [ op |-> "SetBit" ]
    /\ UNCHANGED <<fs, gen, f, dirs, keys, gListOfFiles, budget, issued, cur, detached>>

\* a header that always holds the all-zero UUID
HeaderUUIDZero(st) == 0

\* a header that always holds the UUID of the object
HeaderUUIDOwn(st) == st.fUUID

\* the "UUID" the destructor writes: the all-zero UUID (0) when the
\* kReproducible bit is set, the UUID of the object otherwise
HeaderUUID(st) == IF st.kReproducible THEN 0 ELSE st.fUUID

\* TJSONFile1::~TJSONFile1: CREATE writes the header when the file cannot be
\* read yet, RECREATE writes the header and the keys of demo.root, the other
\* options write nothing
DeleteTJSONFile1 ==
    /\ t.alive
    /\ LET uuid == HeaderUUID(t)
           header == [ json |-> TRUE, type |-> "ROOT file",
                       version |-> kCurrentFileFormatVersion, uuid |-> uuid,
                       Keys |-> << >> ]
       IN
        IF t.fOption = kCREATE
        THEN IF Good(fs, t.fFilename)
             THEN /\ fs' = fs
                  /\ lastOp' = [ op |-> "~TJSONFile1", thrown |-> "File does exist.",
                                 before |-> fs, was |-> t ]
             ELSE /\ fs' = WriteFile(fs, t.fFilename, header)
                  /\ lastOp' = [ op |-> "~TJSONFile1", thrown |-> "",
                                 before |-> fs, was |-> t ]
        ELSE IF t.fOption = kRECREATE
        THEN /\ \E ks \in DemoKeys :
                  fs' = WriteFile(fs, t.fFilename, [header EXCEPT !.Keys = ks])
             /\ lastOp' = [ op |-> "~TJSONFile1", thrown |-> "",
                            before |-> fs, was |-> t ]
        ELSE /\ fs' = fs
             /\ lastOp' = [ op |-> "~TJSONFile1", thrown |-> "",
                            before |-> fs, was |-> t ]
    /\ t' = NoTest
    /\ UNCHANGED <<gen, f, dirs, keys, gListOfFiles, budget, issued, cur, detached>>

\* TKeyJSON::Delete on the i-th key of directory d
Delete(d, i) ==
    /\ gen > 0
    /\ d \in DOMAIN keys
    /\ i \in 1..Len(keys[d])
    /\ keys' = [keys EXCEPT ![d] = RemoveAt(keys[d], i)]
    \* the key object stays with the caller, its node deleted
    /\ detached' = detached \cup { [keys[d][i] EXCEPT !.node = NoNode] }
    /\ cur' = [cur EXCEPT !.clean = FALSE]
    /\ lastOp' = [ op |-> "Delete", dir |-> d, id |-> keys[d][i].id, was |-> keys ]
    /\ UNCHANGED <<fs, gen, f, dirs, gListOfFiles, budget, issued, t>>

\* TKeyJSON::UpdateAttributes on the i-th key of directory d
UpdateAttributes(d, i) ==
    /\ gen > 0
    /\ d \in DOMAIN keys
    /\ i \in 1..Len(keys[d])
    /\ keys' = [keys EXCEPT ![d][i] = StoreKeyAttributes(keys[d][i])]
    /\ cur' = [cur EXCEPT !.clean = FALSE]
    /\ lastOp' = [ op |-> "UpdateAttributes", dir |-> d, id |-> keys[d][i].id,
                   was |-> keys ]
    /\ UNCHANGED <<fs, gen, f, dirs, gListOfFiles, budget, issued, t, detached>>

\* TKeyJSON::UpdateObject(obj) on the i-th key of directory d, obj not null
UpdateObject(d, i, obj) ==
    /\ gen > 0
    /\ d \in DOMAIN keys
    /\ i \in 1..Len(keys[d])
    /\ keys' = [keys EXCEPT ![d][i] = StoreObject(keys[d][i], obj, "", TRUE)]
    /\ cur' = [cur EXCEPT !.clean = FALSE]
    /\ lastOp' = [ op |-> "UpdateObject", dir |-> d, id |-> keys[d][i].id,
                   was |-> keys, obj |-> obj ]
    /\ UNCHANGED <<fs, gen, f, dirs, gListOfFiles, budget, issued, t, detached>>

\* TJSONFile::DirWriteKeys(dir): UpdateAttributes on every key of the file's
\* own list; the directory given is not looked at
DirWriteKeys(dir) ==
    /\ gen > 0
    /\ dir \in DOMAIN keys
    /\ keys' = [keys EXCEPT ![0] = [ i \in 1..Len(keys[0]) |->
                                       StoreKeyAttributes(keys[0][i]) ]]
    /\ cur' = [cur EXCEPT !.clean = FALSE]
    /\ lastOp' = [ op |-> "DirWriteKeys", dir |-> dir, was |-> keys ]
    /\ UNCHANGED <<fs, gen, f, dirs, gListOfFiles, budget, issued, t, detached>>

\* TJSONFile::DirWriteHeader(dir) for a subdirectory dir: UpdateObject(dir)
\* on the key FindDirKey finds, nothing when it finds none
DirWriteHeader(dir) ==
    /\ gen > 0
    /\ dir \in 1..Len(dirs)
    /\ LET i == FindDirKey(dir)
           m == dirs[dir].mother
           dirobj == [ name |-> dirs[dir].name, title |-> dirs[dir].title,
                       cls |-> "TDirectoryFile" ]
       IN  /\ keys' = IF i = 0 THEN keys
                      ELSE [keys EXCEPT ![m][i] = StoreObject(keys[m][i], dirobj, "", TRUE)]
           /\ lastOp' = [ op |-> "DirWriteHeader", dir |-> dir, found |-> i # 0,
                          was |-> keys ]
    /\ cur' = [cur EXCEPT !.clean = FALSE]
    /\ UNCHANGED <<fs, gen, f, dirs, gListOfFiles, budget, issued, t, detached>>

\* the null pointer, as an object or as a result
NullPtr == "nullptr"

\* the class dictionary: the classes a class can be cast to, itself included
\* (TClass::GetBaseClassOffset gives an offset >= 0 for exactly these)
BaseClasses ==
    [ cl \in { "TH1F", "TH1D", "TDirectoryFile", "TArrayD" } |->
        IF cl = "TH1F" THEN { "TH1F", "TH1", "TNamed", "TObject" }
        ELSE IF cl = "TH1D" THEN { "TH1D", "TH1", "TNamed", "TObject" }
        ELSE IF cl = "TDirectoryFile"
        THEN { "TDirectoryFile", "TDirectory", "TNamed", "TObject" }
        ELSE { "TArrayD", "TArray" } ]

\* TKeyJSON::JsonReadAny(obj, expectedClass): obj is NullPtr or "obj", the
\* object handed in; expectedClass "" is the null class.  The result is
\* NullPtr, "obj" or "new", the object TBufferJSON::ConvertFromJSONAny
\* made, of class cl.  The decoder gives no class when the node has no
\* payload.
JsonReadAny(key, obj, expectedClass) ==
    IF ~key.node.present
    THEN [ ptr |-> obj, cl |-> "" ]
    ELSE LET cl == key.node.Object IN
         IF cl = ""
         THEN [ ptr |-> obj, cl |-> "" ]
         ELSE IF expectedClass # "" /\ expectedClass \notin BaseClasses[cl]
         THEN [ ptr |-> NullPtr, cl |-> cl ]
         ELSE [ ptr |-> "new", cl |-> cl ]

\* the keys a caller can read: those in the lists (directory d, place i) and
\* those Delete took out (d = -1)
Targets ==
    UNION { { [ d |-> d, i |-> i, key |-> keys[d][i] ] : i \in 1..Len(keys[d]) } :
            d \in DOMAIN keys }
    \cup { [ d |-> -1, i |-> 0, key |-> k ] : k \in detached }

\* what ReadObj and ReadObjectAny do with a directory they have read: it
\* gets the key's name, title and id, reads its keys (ReadKeysList finds
\* none), is appended to the key's directory, and the key becomes a
\* subdirectory key
ReadAsDirectory(tg) ==
    LET d == Len(dirs) + 1 IN
    /\ Len(dirs) < MaxDirs
    /\ dirs' = Append(dirs, [ name |-> tg.key.name, title |-> tg.key.title,
                              mother |-> tg.d, seekDir |-> tg.key.id ])
    /\ keys' = [ x \in DOMAIN keys \cup {d} |->
                   IF x = d THEN << >>
                   ELSE IF x = tg.d THEN [keys[x] EXCEPT ![tg.i].subdir = TRUE]
                   ELSE keys[x] ]

\* what every read records
ReadDone(op, tg, expected, r, ret) ==
    lastOp' = [ op |-> op, id |-> tg.key.id, listed |-> tg.d >= 0,
                expected |-> expected, stored |-> tg.key.node.Object,
                ptr |-> r.ptr, cl |-> r.cl, ret |-> ret, was |-> keys ]

\* TKeyJSON::ReadObjectAny(expectedClass)
ReadObjectAny(tg, expectedClass) ==
    /\ gen > 0
    /\ tg \in Targets
    /\ LET res == JsonReadAny(tg.key, NullPtr, expectedClass) IN
        /\ IF res.ptr # NullPtr /\ expectedClass = "TDirectoryFile"
           THEN ReadAsDirectory(tg)
           ELSE UNCHANGED <<dirs, keys>>
        /\ ReadDone("ReadObjectAny", tg, expectedClass, res, 0)
    /\ UNCHANGED <<fs, gen, f, gListOfFiles, budget, issued, cur, t, detached>>

\* TKeyJSON::ReadObj
ReadObj(tg) ==
    /\ gen > 0
    /\ tg \in Targets
    /\ LET tobj == JsonReadAny(tg.key, NullPtr, "TObject") IN
        /\ IF tobj.ptr # NullPtr /\ tobj.cl = "TDirectoryFile"
           THEN ReadAsDirectory(tg)
           ELSE UNCHANGED <<dirs, keys>>
        /\ ReadDone("ReadObj", tg, "TObject", tobj, 0)
    /\ UNCHANGED <<fs, gen, f, gListOfFiles, budget, issued, cur, t, detached>>

\* TKeyJSON::Read(tobj): tobj is NullPtr or the class of the object handed
\* in; the value returned is lastOp'.ret
Read(tg, tobj) ==
    /\ gen > 0
    /\ tg \in Targets
    /\ LET res == IF tobj = NullPtr THEN [ ptr |-> NullPtr, cl |-> "" ]
                  ELSE JsonReadAny(tg.key, "obj", "")
       IN  ReadDone("Read", tg, tobj, res, IF res.ptr = NullPtr THEN 0 ELSE 1)
    /\ UNCHANGED <<fs, gen, f, dirs, keys, gListOfFiles, budget, issued, cur, t, detached>>

\* TJSONFile::CombineNodesTree(dir, topnode, dolink): the children of
\* topnode afterwards.  The function returns for a null dir (-1); the loop
\* over the keys of dir is commented out, so topnode is left as it is.
CombineNodesTree(dir, topnode, dolink) ==
    IF dir = -1 THEN topnode ELSE topnode

\* a call of CombineNodesTree(this, root, kTRUE) on a root node without
\* children, as SaveToFile is documented to make it
Combine ==
    /\ gen > 0
    /\ lastOp' = [ op |-> "CombineNodesTree", out |-> CombineNodesTree(0, << >>, TRUE) ]
    /\ UNCHANGED <<fs, gen, f, dirs, keys, gListOfFiles, budget, issued, cur, t, detached>>

\* nodes handed to ReadKeysList: the null pointer, or a node whose children
\* are key nodes with a payload (Object is its type tag) or without one
NullTopNode == [ null |-> TRUE, elems |-> << >> ]
TopNodes ==
    LET good(n) == [ name |-> n, cycle |-> 1, Object |-> "TH1F" ]
        bad(n)  == [ name |-> n, cycle |-> 1, Object |-> "" ]
    IN  { NullTopNode }
        \cup { [ null |-> FALSE, elems |-> e ] :
                 e \in { << >>, <<good("a")>>, <<good("a"), good("b")>>,
                         <<bad("a"), good("b")>>,
                         <<good("a"), bad("b"), good("c")>> } }

\* TJSONFile::ReadKeysList(dir, topnode): returns 0 for a null dir or node,
\* and 0 otherwise as well, the loop over the children being commented out;
\* no key is made and fKeyCounter stays
ReadKeysList(dir, topnode) ==
    /\ gen > 0
    /\ dir \in DOMAIN keys
    /\ lastOp' = [ op |-> "ReadKeysList", dir |-> dir, topnode |-> topnode,
                   nkeys |-> IF topnode.null THEN 0 ELSE 0,
                   was |-> keys, counterWas |-> f.fKeyCounter ]
    /\ UNCHANGED <<fs, gen, f, dirs, keys, gListOfFiles, budget, issued, cur, t, detached>>

\* gROOT->GetListOfStreamerInfo(): the class layouts the process knows, by
\* uid; elements are the kinds of the field descriptors, in order
StreamerInfos ==
    { [ uid |-> 1, name |-> "TH1F", classversion |-> 2, checksum |-> 101,
        elements |-> <<"TStreamerBase", "TStreamerBase", "TStreamerBasicType">> ],
      [ uid |-> 2, name |-> "TH1D", classversion |-> 3, checksum |-> 102,
        elements |-> <<"TStreamerBase", "TStreamerSTL">> ],
      [ uid |-> 3, name |-> "TDirectoryFile", classversion |-> 5, checksum |-> 103,
        elements |-> <<"TStreamerBase", "TStreamerObjectPointer">> ],
      [ uid |-> 4, name |-> "TNamed", classversion |-> 1, checksum |-> 104,
        elements |-> <<"TStreamerBase", "TStreamerString", "TStreamerString">> ] }

\* a setter that takes the flag whatever the store holds
CanSetStoreAlways(st, nkeys) == TRUE

\* the test of SetStoreStreamerInfos: IsWritable() and no key in the file's
\* own list
CanSetStore(st, nkeys) == st.fWritable /\ nkeys = 0

\* TJSONFile::SetStoreStreamerInfos(store)
SetStoreStreamerInfos(store) ==
    /\ gen > 0
    /\ f' = IF CanSetStore(f, Len(keys[0]))
            THEN [f EXCEPT !.fStoreStreamerInfos = store] ELSE f
    /\ lastOp' = [ op |-> "SetStoreStreamerInfos", store |-> store,
                   was |-> f.fStoreStreamerInfos ]
    /\ UNCHANGED <<fs, gen, dirs, keys, gListOfFiles, budget, issued, cur, t, detached>>

\* TJSONFile::WriteStreamerInfo: the node is dropped, the layouts whose uid
\* is marked in fClassIndex are collected, and the code that would make a
\* node of them is commented out.  A null fClassIndex is dereferenced: what
\* is collected then is undefined.
WriteStreamerInfo ==
    /\ gen > 0
    /\ \E any \in SUBSET StreamerInfos :
         LET list == IF ~f.fStoreStreamerInfos THEN {}
                     ELSE IF f.fClassIndex.null THEN any
                     ELSE { info \in StreamerInfos : info.uid \in f.fClassIndex.tagged }
         IN  lastOp' = [ op |-> "WriteStreamerInfo", store |-> f.fStoreStreamerInfos,
                         list |-> list ]
    /\ f' = [f EXCEPT !.fStreamerInfoNode = NullInfoNode]
    /\ UNCHANGED <<fs, gen, dirs, keys, gListOfFiles, budget, issued, cur, t, detached>>

\* TJSONFile::GetStreamerInfoListImpl: no list and status 1 without a node;
\* with a node an empty list, the code that reads the records being
\* commented out
GetStreamerInfoListImpl ==
    /\ gen > 0
    /\ lastOp' = [ op |-> "GetStreamerInfoListImpl",
                   null |-> f.fStreamerInfoNode.null,
                   list |-> {},
                   status |-> IF f.fStreamerInfoNode.null THEN 1 ELSE 0,
                   afterWrite |-> lastOp.op = "WriteStreamerInfo" ]
    /\ UNCHANGED <<fs, gen, f, dirs, keys, gListOfFiles, budget, issued, cur, t, detached>>

----------------------------------------------------------------------------
(* Spec: one TJSONFile object, opened in any mode on any file name *)

Next ==
    \/ \E fn \in FileNameInputs, o \in OptionInputs : Open(fn, o)
    \/ \E fn \in FileNameInputs, o \in { kREAD, kUPDATE, <<"r","e","a","d">> } :
          NewTJSONFile1(fn, o)
    \/ Close
    \/ \E m \in { kREAD, kCREATE, <<"u","p","d","a","t","e">> } : ReOpen(m)
    \/ \E d \in DOMAIN keys, o \in Objects : CreateKey(d, o, NullName)
    \/ \E d \in DOMAIN keys : DirCreateEntry(d, "sub", "a directory")

Spec == Init /\ [][Next]_vars

----------------------------------------------------------------------------
(* SpecReopen: f.json is written by one object and opened again by the next *)

NextReopen ==
    \/ \E o \in { kRECREATE, kUPDATE } : Open(FJson, o)
    \/ \E o \in { kREAD, kUPDATE } : OpenNext(FJson, o)
    \/ Close
    \/ \E d \in DOMAIN keys, o \in Objects : CreateKey(d, o, NullName)
    \/ \E d \in DOMAIN keys : DirCreateEntry(d, "sub", "a directory")

SpecReopen == Init /\ [][NextReopen]_vars

----------------------------------------------------------------------------
(* SpecKeys: the key operations on one store, opened with RECREATE *)

InitKeys ==
    /\ \E p \in FileProfiles :
         LET disk == [x \in Paths |-> IF x = DevNull THEN NullDevice ELSE p]
             c == Construct(FJson, kRECREATE, disk)
         IN  /\ fs = c.disk
             /\ f = c.store
             /\ gListOfFiles = IF c.init THEN {1} ELSE {}
             /\ cur = [ mode |-> kRECREATE, openedWritable |-> c.store.fWritable,
                        clean |-> FALSE ]
    /\ gen = 1
    /\ dirs = << >>
    /\ keys = EmptyKeys
    /\ budget = MaxKeyIds
    /\ issued = {}
    /\ t = NoTest
    /\ detached = {}
    /\ lastOp = NoOp

NextKeys ==
    \/ \E d \in DOMAIN keys, o \in Objects, n \in { NullName, "hist" } : CreateKey(d, o, n)
    \/ \E d \in DOMAIN keys, o \in Objects, n \in { "hist", "" } : CreateKeyAny(d, o, o.cls, n)
    \/ \E d \in DOMAIN keys : DirCreateEntry(d, "sub", "a directory")
    \/ \E d \in DOMAIN keys : \E i \in 1..Len(keys[d]) : Delete(d, i)
    \/ Combine

SpecKeys == InitKeys /\ [][NextKeys]_vars

----------------------------------------------------------------------------
(* SpecUpdate: keys of one store are created and then updated in place *)

InitUpdate ==
    /\ LET disk == [x \in Paths |-> IF x = DevNull THEN NullDevice ELSE NoFile]
           c == Construct(FJson, kRECREATE, disk)
       IN  /\ fs = c.disk
           /\ f = c.store
           /\ gListOfFiles = IF c.init THEN {1} ELSE {}
           /\ cur = [ mode |-> kRECREATE, openedWritable |-> c.store.fWritable,
                      clean |-> FALSE ]
    /\ gen = 1
    /\ dirs = << >>
    /\ keys = EmptyKeys
    /\ budget = MaxKeys
    /\ issued = {}
    /\ t = NoTest
    /\ detached = {}
    /\ lastOp = NoOp

NextUpdate ==
    \/ \E d \in DOMAIN keys, o \in Objects : CreateKey(d, o, NullName)
    \/ \E d \in DOMAIN keys : DirCreateEntry(d, "sub", "a directory")
    \/ \E d \in DOMAIN keys : \E i \in 1..Len(keys[d]) : UpdateAttributes(d, i)
    \/ \E d \in DOMAIN keys, o \in Objects : \E i \in 1..Len(keys[d]) : UpdateObject(d, i, o)
    \/ \E d \in DOMAIN keys : DirWriteKeys(d)
    \/ \E d \in 1..Len(dirs) : DirWriteHeader(d)
    \/ \E d \in DOMAIN keys : \E i \in 1..Len(keys[d]) : Delete(d, i)

SpecUpdate == InitUpdate /\ [][NextUpdate]_vars

----------------------------------------------------------------------------
(* SpecSchema: the schema records and the reading of key lists of one store,
   opened with RECREATE or READ *)

InitSchema ==
    /\ \E o \in { kRECREATE, kREAD } :
         LET disk == [ x \in Paths |->
                        IF x = DevNull THEN NullDevice
                        ELSE [ exists |-> TRUE, r |-> TRUE, w |-> TRUE, rm |-> TRUE,
                               doc |-> OldDoc ] ]
             c == Construct(FJson, o, disk)
         IN  /\ fs = c.disk
             /\ f = c.store
             /\ gListOfFiles = IF c.init THEN {1} ELSE {}
             /\ cur = [ mode |-> o, openedWritable |-> c.store.fWritable,
                        clean |-> FALSE ]
    /\ gen = 1
    /\ dirs = << >>
    /\ keys = EmptyKeys
    /\ budget = MaxKeys
    /\ issued = {}
    /\ t = NoTest
    /\ detached = {}
    /\ lastOp = NoOp

NextSchema ==
    \/ \E d \in DOMAIN keys, o \in Objects : CreateKey(d, o, NullName)
    \/ \E d \in DOMAIN keys : DirCreateEntry(d, "sub", "a directory")
    \/ \E d \in DOMAIN keys : \E i \in 1..Len(keys[d]) : Delete(d, i)
    \/ \E b \in BOOLEAN : SetStoreStreamerInfos(b)
    \/ WriteStreamerInfo
    \/ GetStreamerInfoListImpl
    \/ \E d \in DOMAIN keys, n \in TopNodes : ReadKeysList(d, n)

SpecSchema == InitSchema /\ [][NextSchema]_vars

----------------------------------------------------------------------------
(* SpecRead: the keys of one store are created, changed and read *)

\* an object of a class that does not derive from TObject
\* a constructor from a node that never reads the title
TKeyJSON3NoTitle(keyid, node) ==
    [ thrown |-> node.Object = "",
      key |-> [ id |-> keyid, name |-> node.name, title |-> "",
                cycle |-> node.cycle,
                cls |-> node.Object, subdir |-> FALSE, node |-> node ] ]

\* TKeyJSON::TKeyJSON(mother, keyid, void *keynode): name and cycle are read
\* from the node, the title when the node holds one, the class name from
\* the "_typename" of "Object"; get<std::string>() throws when there is none
TKeyJSON3(keyid, node) ==
    [ thrown |-> node.Object = "",
      key |-> [ id |-> keyid, name |-> node.name,
                title |-> IF node.title # "" THEN node.title ELSE "",
                cycle |-> node.cycle,
                cls |-> node.Object, subdir |-> FALSE, node |-> node ] ]

\* new TKeyJSON(mother, keyid, keynode) on a copy of the node of a key; the
\* constructor appends the key to no list
KeyFromNode(tg) ==
    /\ gen > 0
    /\ tg \in Targets
    /\ tg.key.node.present
    /\ LET r == TKeyJSON3(tg.key.id, tg.key.node) IN
         lastOp' = [ op |-> "TKeyJSON3", from |-> tg.key, thrown |-> r.thrown,
                     key |-> r.key ]
    /\ UNCHANGED <<fs, gen, f, dirs, keys, gListOfFiles, budget, issued, cur, t, detached>>

ArrayObject == [ name |-> "arr", title |-> "an array", cls |-> "TArrayD" ]

NextRead ==
    \/ \E o \in Objects : CreateKey(0, o, NullName)
    \/ CreateKeyAny(0, ArrayObject, ArrayObject.cls, "")
    \/ DirCreateEntry(0, "sub", "a directory")
    \/ \E i \in 1..Len(keys[0]) : UpdateAttributes(0, i)
    \/ \E i \in 1..Len(keys[0]) : Delete(0, i)
    \/ \E tg \in Targets, e \in { "TObject", "TH1F", "TH1", "TDirectoryFile", "TArrayD" } :
          ReadObjectAny(tg, e)
    \/ \E tg \in Targets : ReadObj(tg)
    \/ \E tg \in Targets, tobj \in { NullPtr, "TH1F", "TH1D" } : Read(tg, tobj)
    \/ \E tg \in Targets : KeyFromNode(tg)

SpecRead == InitUpdate /\ [][NextRead]_vars

----------------------------------------------------------------------------
(* SpecNames: ProduceFileNames on file names of every shape *)

\* stems of up to MaxStem characters and the endings put after them
Stems == UNION { [1..n -> {"a", ".", "N"}] : n \in 0..MaxStem }
Endings ==
    { << >>, JsonExt, <<".","J","S","O","N">>, <<".","j","s","o","N">>,
      <<"j","s","o","n">>, <<".","j","s","o">>, <<".","j","s","o","n","x">>,
      <<".","x","m","l">>, <<"n">> }
NameInputs == { st \o e : st \in Stems, e \in Endings }

InitNames ==
    /\ fs = [x \in Paths |-> IF x = DevNull THEN NullDevice ELSE NoFile]
    /\ gen = 0
    /\ f = NoStore
    /\ dirs = << >>
    /\ keys = EmptyKeys
    /\ gListOfFiles = {}
    /\ budget = 0
    /\ issued = {}
    /\ cur = NoCur
    /\ t = NoTest
    /\ detached = {}
    /\ \E n \in NameInputs : lastOp = [ op |-> "filename", filename |-> n ]

\* a call of ProduceFileNames on the file name drawn
CallProduceFileNames ==
    /\ lastOp.op = "filename"
    /\ lastOp' = [ op |-> "ProduceFileNames", filename |-> lastOp.filename,
                   fname |-> ProduceFileNames(lastOp.filename) ]
    /\ UNCHANGED <<fs, gen, f, dirs, keys, gListOfFiles, budget, issued, cur, t, detached>>

NextNames == CallProduceFileNames

SpecNames == InitNames /\ [][NextNames]_vars

----------------------------------------------------------------------------
(* SpecTest1: the test class TJSONFile1 on files of every kind *)

\* documents a test finds at f.json: not JSON, without type, of another
\* type, as the test class writes it, of a later version, of another type
\* and a later version
TestDocs ==
    { NotJson,
      [OldDoc EXCEPT !.type = ""],
      [OldDoc EXCEPT !.type = "text"],
      OldDoc,
      LaterDoc,
      [LaterDoc EXCEPT !.type = "text"] }

TestFiles ==
    { NoFile,
      [exists |-> TRUE, r |-> FALSE, w |-> TRUE, rm |-> TRUE, doc |-> OldDoc] }
    \cup { [exists |-> TRUE, r |-> TRUE, w |-> TRUE, rm |-> TRUE, doc |-> d] : d \in TestDocs }

InitTest1 ==
    /\ \E p \in TestFiles : fs = [x \in Paths |-> IF x = DevNull THEN NullDevice ELSE p]
    /\ gen = 0
    /\ f = NoStore
    /\ dirs = << >>
    /\ keys = EmptyKeys
    /\ gListOfFiles = {}
    /\ budget = 0
    /\ issued = {}
    /\ cur = NoCur
    /\ t = NoTest
    /\ detached = {}
    /\ lastOp = NoOp

NextTest1 ==
    \/ \E fn \in { FJson, DevNull, EmptyName }, o \in OptionInputs \cup { kUPLOAD } :
          NewTJSONFile1(fn, o)
    \/ SetBitReproducible
    \/ DeleteTJSONFile1

SpecTest1 == InitTest1 /\ [][NextTest1]_vars

----------------------------------------------------------------------------
(* Claims *)

Creates == { "CreateKey", "CreateKeyAny", "DirCreateEntry" }

\* the keys of all directories of the current file, as (directory, place)
AllKeys == UNION { { <<d, i>> : i \in 1..Len(keys[d]) } : d \in DOMAIN keys }
KeyAt(p) == keys[p[1]][p[2]]

\* the key with the given id in a list
KeyWithId(list, id) == list[CHOOSE i \in 1..Len(list) : list[i].id = id]

\* the places of the keys named n in a list
Named(list, n) == { i \in 1..Len(list) : list[i].name = n }

\* C1: over any interleaving of CreateKey (both overloads), DirCreateEntry
\* and Delete, a newly created key gets an id greater than every id handed
\* out before (so the id of a deleted key is never handed out again), and no
\* two keys of the file share an id.
C1_IdsIncrease ==
    [][ lastOp'.op \in Creates =>
          /\ \A j \in issued : lastOp'.id > j
          /\ \A d \in DOMAIN keys : \A i \in 1..Len(keys[d]) : lastOp'.id > keys[d][i].id
          /\ \A d \in DOMAIN keys' : \A i \in 1..Len(keys'[d]) :
                \A e \in DOMAIN keys' : \A j \in 1..Len(keys'[e]) :
                    (keys'[d][i].id = keys'[e][j].id) => (d = e /\ i = j)
      ]_vars

\* a key is created after another was deleted, with keys in two directories
C1_Witness ==
    /\ lastOp.op \in Creates
    /\ \E j \in issued : \A p \in AllKeys : KeyAt(p).id # j
    /\ \E p \in AllKeys, q \in AllKeys : p[1] # q[1]

\* C2 as stated: a key created with name n in directory d gets cycle
\* 1 + the number of entries named n in d at that moment, after any sequence
\* of creates and deletes.
C2_CycleIsCountPlusOne ==
    [][ lastOp'.op \in Creates =>
          LET d == lastOp'.dir
              k == KeyWithId(keys'[d], lastOp'.id)
          IN  k.cycle = 1 + Cardinality(Named(keys[d], k.name))
      ]_vars

\* C2 amended: the key gets cycle 1 + the highest cycle among the entries
\* named n in d at that moment (1 when there is none), whatever the entries
\* with other names or in other directories are; that is 1 + their number as
\* long as no entry named n was deleted from d.
C2_CycleIsHighestPlusOne ==
    [][ lastOp'.op \in Creates =>
          LET d == lastOp'.dir
              k == KeyWithId(keys'[d], lastOp'.id)
              same == Named(keys[d], k.name)
          IN  /\ k.cycle = 1 + (IF same = {} THEN 0
                                ELSE MaxOf({ keys[d][i].cycle : i \in same }))
              /\ (\A i \in same : keys[d][i].cycle <= Cardinality(same))
                    => k.cycle = 1 + Cardinality(same)
      ]_vars

\* a key was just created with a cycle above 1 + the number of other entries
\* of its name (an older one was deleted)
C2_Witness ==
    /\ lastOp.op \in Creates
    /\ LET list == keys[lastOp.dir]
           k == KeyWithId(list, lastOp.id)
       IN  /\ k.cycle = 3
           /\ Cardinality(Named(list, k.name)) = 2

\* the last operation constructed a TJSONFile with the given mode (in any
\* letter case) on a file name whose target is path
Opened(mode, path) ==
    /\ lastOp.op = "Open"
    /\ ToUpper(lastOp.option) = mode
    /\ StripXml(lastOp.filename) = path

\* the target file existed when the last operation began
Existed(path) == lastOp.before[path].exists

\* name, title, class and cycle of the entries of a list of a document tree
Facts(tree) ==
    { [ name |-> tree[i].name, title |-> tree[i].title, cls |-> tree[i].cls,
        cycle |-> tree[i].cycle ] : i \in 1..Len(tree) }

\* names and nesting of a document tree, in order
RECURSIVE Shape(_)
Shape(tree) ==
    [ i \in 1..Len(tree) |->
        [ name |-> tree[i].name, subdir |-> tree[i].subdir, Keys |-> Shape(tree[i].Keys) ] ]

\* the last operation opened f.json for reading after the object before,
\* opened with RECREATE on f.json, was closed with nothing done since
ReadBack ==
    /\ Opened(kREAD, FJson)
    /\ lastOp.prevMode = kRECREATE
    /\ lastOp.prevPath = FJson
    /\ lastOp.prevClean

\* C3: when Close is called on a store that was opened writable (and still
\* is), the file at the store's path afterwards holds the serialized
\* document: its type marker is "ROOTfile" and its Keys hold every key entry
\* that was in the root directory at the time of Close.
C3_CloseWritesDocument ==
    ( /\ lastOp.op = "Close"
      /\ lastOp.nth = 1
      /\ cur.openedWritable
      /\ lastOp.wasWritable
      /\ f.fRealName = FJson )
    => LET e == fs[FJson]
       IN  /\ e.exists
           /\ e.doc.type = "ROOTfile"
           /\ \A i \in 1..Len(lastOp.tree) :
                 \E j \in 1..Len(e.doc.Keys) : e.doc.Keys[j] = lastOp.tree[i]

\* C4: calling Close twice in a row on a store opened writable: the file was
\* written by the first call (it holds this store's document), and the second
\* call changes nothing: the store, the registry and the file are as the
\* first call left them.
C4_SecondCloseIsNoOp ==
    ( /\ lastOp.op = "Close"
      /\ lastOp.nth = 2
      /\ cur.openedWritable
      /\ f.fRealName = FJson )
    => /\ fs = lastOp.before
       /\ f = lastOp.fBefore
       /\ gListOfFiles = lastOp.listBefore
       /\ fs[FJson].exists
       /\ fs[FJson].doc.uuid = gen

\* C5: after a store opened with RECREATE was written to and closed, opening
\* the same path with READ gives a root directory with one key entry per
\* entry written to the root, with the same name, title, class name and cycle.
C5_ReadBackRootEntries ==
    ReadBack =>
        /\ Len(keys[0]) = Len(lastOp.prevTree)
        /\ Facts(Tree(0)) = Facts(lastOp.prevTree)

\* C6: after a subdirectory sub was created in the root, an object leaf was
\* written into it and the store was closed, opening the path with READ shows
\* the same nesting and order of entries in every directory: sub in the root,
\* leaf in sub.
C6_ReadBackNesting ==
    ( /\ ReadBack
      /\ \E i \in 1..Len(lastOp.prevTree) :
            /\ lastOp.prevTree[i].subdir
            /\ lastOp.prevTree[i].Keys # << >> )
    => Shape(Tree(0)) = Shape(lastOp.prevTree)

\* what C7 promises of a failed open: a zombie that is not writable, and the
\* file system as it was
FailedUntouched ==
    /\ f.zombie
    /\ ~f.fWritable
    /\ fs = lastOp.before

\* C7 as stated: opening with CREATE (or NEW) a target path that already
\* exists fails: the store is a zombie, the existing file is neither removed
\* nor modified, and nothing can be written.
C7_CreateOnExistingFails ==
    \A m \in { kCREATE, kNEW }, p \in Paths :
        (Opened(m, p) /\ Existed(p)) => FailedUntouched

\* C7 amended: opening with CREATE (or NEW) a target path that already exists
\* and is not the writable null device /dev/null fails: the store is a zombie
\* and not writable, and the existing file is neither removed nor modified.
\* On the writable null device the open succeeds, as an open for creation.
C7_CreateOnExistingFileFails ==
    \A m \in { kCREATE, kNEW }, p \in Paths :
        (Opened(m, p) /\ Existed(p)) =>
            IF p = DevNull /\ lastOp.before[p].w
            THEN ~f.zombie /\ f.fWritable /\ f.kDevNull /\ fs = lastOp.before
            ELSE FailedUntouched

\* NEW was asked for f.json, which existed, and the open failed
C7_Witness ==
    /\ Opened(kNEW, FJson)
    /\ Existed(FJson)
    /\ f.zombie
    /\ fs[FJson].doc = OldDoc

\* what RECREATE promises: a fresh, empty, writable document, the old file
\* gone, none of its entries in the store
FreshDocument(p) ==
    /\ ~f.zombie
    /\ f.fWritable
    /\ (Existed(p) => ~fs[p].exists)
    /\ keys = EmptyKeys
    /\ dirs = << >>

\* C8 as stated: opening with RECREATE always removes an existing target file
\* before creating a fresh, empty, writable document; it never fails because
\* the target already exists and never exposes entries of the previous file.
C8_RecreateAlwaysReplaces ==
    \A p \in Paths : Opened(kRECREATE, p) => FreshDocument(p)

\* C8 amended: opening with RECREATE a target other than the writable null
\* device first tries to remove an existing target file.  When the file is
\* gone after that (it did not exist, or it could be removed) the open gives
\* a fresh, empty, writable document and exposes no entry of the previous
\* file.  When the file could not be removed the open fails as CREATE on an
\* existing file does: a zombie, the file left as it was.  On the writable
\* null device nothing is removed and the open succeeds.
C8_RecreateReplacesWhenRemovable ==
    \A p \in Paths :
        Opened(kRECREATE, p) =>
            IF p = DevNull /\ lastOp.before[p].w
            THEN ~f.zombie /\ f.fWritable /\ f.kDevNull /\ fs = lastOp.before
                 /\ keys = EmptyKeys
            ELSE IF Existed(p) /\ ~lastOp.before[p].rm
            THEN FailedUntouched
            ELSE FreshDocument(p)

\* RECREATE on f.json, which held the old document with its entry: the file
\* is gone and the store is writable and empty
C8_Witness ==
    /\ Opened(kRECREATE, FJson)
    /\ Existed(FJson)
    /\ lastOp.before[FJson].doc.Keys # << >>
    /\ ~fs[FJson].exists
    /\ f.fWritable
    /\ keys[0] = << >>

\* C9: opening with UPDATE a target that does not exist gives what CREATE
\* gives on it (an empty writable document, nothing parsed; only the mode
\* string kept is UPDATE); an existing target needs write permission, without
\* it the store is a zombie, with it the store is writable; the file is left
\* as it was in every case.
C9_UpdateLikeCreateOrNeedsWrite ==
    \A p \in Paths :
        Opened(kUPDATE, p) =>
            IF ~Existed(p)
            THEN LET c == Construct(lastOp.filename, kCREATE, lastOp.before)
                 IN  /\ f = [c.store EXCEPT !.fOption = kUPDATE]
                     /\ fs = c.disk
                     /\ lastOp.init = c.init
                     /\ lastOp.create
                     /\ ~f.zombie
                     /\ f.fWritable
                     /\ keys = EmptyKeys
            ELSE /\ f.zombie <=> ~lastOp.before[p].w
                 /\ f.fWritable <=> lastOp.before[p].w
                 /\ fs = lastOp.before

\* UPDATE on f.json, which existed without write permission: a zombie
C9_Witness ==
    /\ Opened(kUPDATE, FJson)
    /\ Existed(FJson)
    /\ ~lastOp.before[FJson].w
    /\ f.zombie

\* the target of the last operation is missing or cannot be read
Unreadable(path) ==
    \/ path \notin DOMAIN lastOp.before
    \/ ~lastOp.before[path].exists
    \/ ~lastOp.before[path].r

Modes == { kCREATE, kNEW, kRECREATE, kUPDATE, kREAD }

\* the last operation constructed a TJSONFile with a mode string that names
\* no mode and left what the constructor leaves for READ on the same file
\* name and file system
OpenedAsRead ==
    LET c == Construct(lastOp.filename, kREAD, lastOp.before)
    IN  /\ f = c.store
        /\ fs = c.disk
        /\ lastOp.init = c.init
        /\ lastOp.create = c.create
        /\ keys = EmptyKeys

\* C11 as stated: a mode string that is none of CREATE, NEW, RECREATE,
\* UPDATE, READ in any letter case makes the open behave exactly as READ on
\* the same path, and the store is not writable.
C11_UnknownModeIsReadOnly ==
    (lastOp.op = "Open" /\ ToUpper(lastOp.option) \notin Modes)
        => (OpenedAsRead /\ ~f.fWritable)

\* C11 amended: such a mode string makes the open behave exactly as READ on
\* the same path; the store is not writable unless the target is the
\* writable null device /dev/null, which every mode, READ included, opens
\* for creation and writable.
C11_UnknownModeIsRead ==
    (lastOp.op = "Open" /\ ToUpper(lastOp.option) \notin Modes)
        => /\ OpenedAsRead
           /\ f.fWritable <=>
                ( StripXml(lastOp.filename) = DevNull /\ lastOp.before[DevNull].w )

\* "APPEND" was asked for f.json, which existed and could be read: the open
\* succeeded with mode READ, not writable
C11_Witness ==
    /\ Opened(<<"A","P","P","E","N","D">>, FJson)
    /\ Existed(FJson)
    /\ ~f.zombie
    /\ f.fOption = kREAD
    /\ ~f.fWritable

\* the last operation constructed a TJSONFile1 with the given option on the
\* given file name
Tested(option, filename) ==
    /\ lastOp.op = "TJSONFile1"
    /\ lastOp.option = option
    /\ lastOp.filename = filename

\* the document the last operation found at f.json, a readable file
FoundDoc == lastOp.before[FJson].doc
Readable(path) == lastOp.before[path].exists /\ lastOp.before[path].r

\* C12: constructing TJSONFile1 with an option that is not one of READ,
\* CREATE, RECREATE, UPLOAD, spelled so, throws "Not an option." before any
\* file is opened, whatever the file name is and whatever the file holds; no
\* object and no change of the file system is left.
C12_NotAnOptionThrowsFirst ==
    ( /\ lastOp.op = "TJSONFile1"
      /\ lastOp.option \notin { kREAD, kCREATE, kRECREATE, kUPLOAD } )
    => /\ lastOp.thrown = "Not an option."
       /\ ~lastOp.opened
       /\ ~t.alive
       /\ fs = lastOp.before

\* "read" in lower case was given for f.json, which holds a document the
\* class reads, and the constructor threw
C12_Witness ==
    /\ Tested(<<"r","e","a","d">>, FJson)
    /\ Readable(FJson)
    /\ FoundDoc = OldDoc
    /\ lastOp.thrown = "Not an option."

\* C15: TJSONFile1 opened with READ on well-formed JSON without a type marker
\* throws "File does not have a type.", on one with another type marker
\* "Not a ROOT File."; the type is tested before the version, so a document
\* of another type and a later version reports the type.
C15_TypeCheckedBeforeVersion ==
    (Tested(kREAD, FJson) /\ Readable(FJson) /\ FoundDoc.json)
    => /\ FoundDoc.type = "" => lastOp.thrown = "File does not have a type."
       /\ (FoundDoc.type # "" /\ FoundDoc.type # "ROOT file")
             => lastOp.thrown = "Not a ROOT File."
       /\ (FoundDoc.type # "ROOT file") => (~t.alive /\ ~lastOp.loaded)

\* READ on a document of another type and of a later version: the type error
C15_Witness ==
    /\ Tested(kREAD, FJson)
    /\ Readable(FJson)
    /\ FoundDoc.json
    /\ FoundDoc.type = "text"
    /\ FoundDoc.version > kCurrentFileFormatVersion
    /\ lastOp.thrown = "Not a ROOT File."

\* the last operation constructed a TJSONFile on f.json in a mode that reads
\* the file, and the file could be opened in that mode: READ or no mode on
\* a readable file, UPDATE on a writable one
OpenedToRead ==
    /\ lastOp.op = "Open"
    /\ StripXml(lastOp.filename) = FJson
    /\ Existed(FJson)
    /\ \/ /\ ToUpper(lastOp.option) \notin { kCREATE, kNEW, kRECREATE, kUPDATE }
          /\ lastOp.before[FJson].r
       \/ /\ ToUpper(lastOp.option) = kUPDATE
          /\ lastOp.before[FJson].w

\* the last operation was an open that met a structural failure: a missing
\* or unreadable file under READ, an existing file under CREATE, or a file
\* to read that is not JSON or is of a later version
StructuralFailure ==
    /\ lastOp.op = "Open"
    /\ StripXml(lastOp.filename) = FJson
    /\ \/ ToUpper(lastOp.option) = kREAD /\ Unreadable(FJson)
       \/ ToUpper(lastOp.option) \in { kCREATE, kNEW } /\ Existed(FJson)
       \/ OpenedToRead /\ ~FoundDoc.json
       \/ OpenedToRead /\ FoundDoc.version > kCurrentFileFormatVersion

\* C13: an open that fails for a structural reason leaves a zombie that
\* exposes no key entries and is not in the registry of open stores, and the
\* file system as it was.
C13_FailedOpenIsZombie ==
    StructuralFailure
    => /\ f.zombie
       /\ keys = EmptyKeys
       /\ gen \notin gListOfFiles
       /\ fs = lastOp.before

\* C14: opening for read a document of a format version later than the
\* current one fails and leaves no mutated state.  TJSONFile1 throws "File
\* version not compatible.", takes neither version nor uuid from the file
\* and leaves no object; TJSONFile ends as a zombie without entries; the file
\* is unchanged.
C14_LaterVersionFails ==
    /\ ( /\ Tested(kREAD, FJson)
         /\ Readable(FJson)
         /\ FoundDoc.json
         /\ FoundDoc.type = "ROOT file"
         /\ FoundDoc.version > kCurrentFileFormatVersion )
       => /\ lastOp.thrown = "File version not compatible."
          /\ ~lastOp.loaded
          /\ ~t.alive
          /\ fs = lastOp.before
    /\ ( /\ OpenedToRead
         /\ FoundDoc.json
         /\ FoundDoc.version > kCurrentFileFormatVersion )
       => /\ f.zombie
          /\ keys = EmptyKeys
          /\ fs = lastOp.before

\* C16: ReOpen with a mode that is neither READ nor UPDATE in any letter
\* case returns 1 and leaves the store's mode and writable flag (all its
\* fields), its directories and key entries and the file system unchanged.
C16_ReOpenRejectsOtherModes ==
    [][ ( /\ lastOp'.op = "ReOpen"
          /\ ToUpper(lastOp'.mode) \notin { kREAD, kUPDATE } )
        => /\ lastOp'.result = 1
           /\ f' = f
           /\ keys' = keys
           /\ dirs' = dirs
           /\ fs' = fs
      ]_vars

\* ReOpen("CREATE") was called on a store opened for reading, which holds a
\* key, and returned 1
C16_Witness ==
    /\ lastOp.op = "ReOpen"
    /\ lastOp.mode = kCREATE
    /\ lastOp.result = 1
    /\ ~f.zombie
    /\ f.fOption = kREAD
    /\ keys[0] # << >>

\* C17: ReOpen(READ) on a writable store opened with CREATE, RECREATE or
\* UPDATE saves the document before the store becomes non-writable: after
\* the call the file at the store's path holds every entry created so far,
\* and the store is not writable.
C17_ReOpenReadSaves ==
    ( /\ lastOp.op = "ReOpen"
      /\ ToUpper(lastOp.mode) = kREAD
      /\ lastOp.wasWritable
      /\ cur.openedWritable
      /\ f.fRealName = FJson )
    => /\ ~f.fWritable
       /\ fs[FJson].exists
       /\ fs[FJson].doc.json
       /\ fs[FJson].doc.Keys = lastOp.tree

\* C18: ReOpen(UPDATE) on a store opened with READ returns 0 and makes the
\* store writable without reloading: directories, key entries (id, name,
\* cycle, payload) and the key counter are as before, and so is the file.
C18_ReOpenUpdateKeepsEntries ==
    [][ ( /\ lastOp'.op = "ReOpen"
          /\ ToUpper(lastOp'.mode) = kUPDATE
          /\ cur.mode \notin { kCREATE, kNEW, kRECREATE, kUPDATE }
          /\ ~f.zombie
          /\ f.fOption = kREAD )
        => /\ lastOp'.result = 0
           /\ f'.fWritable
           /\ f'.fKeyCounter = f.fKeyCounter
           /\ keys' = keys
           /\ dirs' = dirs
           /\ fs' = fs
      ]_vars

\* ReOpen("update") made a store opened for reading writable; the store
\* holds a key
C18_Witness ==
    /\ lastOp.op = "ReOpen"
    /\ lastOp.mode = <<"u","p","d","a","t","e">>
    /\ lastOp.result = 0
    /\ ~lastOp.wasWritable
    /\ cur.mode = kREAD
    /\ ~f.zombie
    /\ f.fWritable
    /\ keys[0] # << >>

\* the place in list of the key with the given id
PlaceOf(list, id) == CHOOSE i \in 1..Len(list) : list[i].id = id

\* every key but the one the last operation acted on is as it was
OthersKept ==
    LET d == lastOp.dir
        i == PlaceOf(lastOp.was[d], lastOp.id)
    IN  /\ DOMAIN keys = DOMAIN lastOp.was
        /\ \A e \in DOMAIN keys : Len(keys[e]) = Len(lastOp.was[e])
        /\ \A e \in DOMAIN keys : \A j \in 1..Len(keys[e]) :
              (e # d \/ j # i) => keys[e][j] = lastOp.was[e][j]

\* C19: UpdateObject on a key entry replaces its payload by the encoding of
\* the object given and leaves the entry's id, cycle, name and place in its
\* directory unchanged; no other key entry is changed.
C19_UpdateObjectKeepsIdAndCycle ==
    lastOp.op = "UpdateObject" =>
        LET d == lastOp.dir
            i == PlaceOf(lastOp.was[d], lastOp.id)
            old == lastOp.was[d][i]
            new == keys[d][i]
        IN  /\ OthersKept
            /\ new.id = old.id
            /\ new.cycle = old.cycle
            /\ new.name = old.name
            /\ new.subdir = old.subdir
            /\ new.node.present
            /\ new.node.Object = lastOp.obj.cls
            /\ new.node.cycle = old.cycle
            /\ new.node.name = old.name

\* UpdateObject put an object of another class into the second of two keys
C19_Witness ==
    /\ lastOp.op = "UpdateObject"
    /\ LET d == lastOp.dir
           i == PlaceOf(lastOp.was[d], lastOp.id)
       IN  /\ Len(keys[d]) = 2
           /\ i = 2
           /\ lastOp.was[d][i].node.Object # lastOp.obj.cls
           /\ keys[d][i].node.Object = lastOp.obj.cls

\* C20: UpdateAttributes on a key entry rewrites only the name, title and
\* cycle fields of its node: the "Object" payload in the node is the same
\* after the call as before it, and no other key entry is changed.
C20_UpdateAttributesKeepsPayload ==
    lastOp.op = "UpdateAttributes" =>
        LET d == lastOp.dir
            i == PlaceOf(lastOp.was[d], lastOp.id)
            old == lastOp.was[d][i]
            new == keys[d][i]
        IN  /\ OthersKept
            /\ new.node.name = new.name
            /\ new.node.cycle = new.cycle
            /\ new.node.title = new.title
            /\ new.node.Object = old.node.Object

\* C21: after any sequence of CreateKey, UpdateObject, UpdateAttributes,
\* DirWriteKeys, DirWriteHeader and Delete, every key entry that is in some
\* directory's entry list has a node whose "Object" payload carries a type
\* tag.
C21_ListedKeysHaveTypeTag ==
    \A p \in AllKeys : KeyAt(p).node.present /\ KeyAt(p).node.Object # ""

\* C22: Delete on a key entry releases its payload and removes exactly that
\* entry from its directory's list: afterwards the entry is in no directory
\* list, and the other entries of the directory are the ones it had, in the
\* same order, with their ids and cycles; the lists of the other directories
\* are unchanged.
C22_DeleteRemovesExactlyThatEntry ==
    lastOp.op = "Delete" =>
        LET d == lastOp.dir
            old == lastOp.was[d]
            i == PlaceOf(old, lastOp.id)
        IN  /\ \A p \in AllKeys : KeyAt(p).id # lastOp.id
            /\ \E k \in detached : k.id = lastOp.id /\ ~k.node.present
            /\ DOMAIN keys = DOMAIN lastOp.was
            /\ \A e \in DOMAIN keys \ {d} : keys[e] = lastOp.was[e]
            /\ Len(keys[d]) = Len(old) - 1
            /\ \A j \in 1..Len(keys[d]) :
                  keys[d][j] = IF j < i THEN old[j] ELSE old[j + 1]

\* Delete took the second of three key entries out of a directory
C22_Witness ==
    /\ lastOp.op = "Delete"
    /\ LET d == lastOp.dir
           old == lastOp.was[d]
       IN  /\ Len(old) = 3
           /\ PlaceOf(old, lastOp.id) = 2
           /\ Len(keys[d]) = 2
           /\ keys[d][1].id = old[1].id
           /\ keys[d][2].id = old[3].id

\* C23: the store-streamer-infos flag can change only while the document
\* has no key entry: once the document holds at least one key entry,
\* SetStoreStreamerInfos(store) leaves the flag as it was, for either value
\* of store.
C23_FlagFixedOnceKeysExist ==
    (lastOp.op = "SetStoreStreamerInfos" /\ Tree(0) # << >>) =>
        f.fStoreStreamerInfos = lastOp.was

\* SetStoreStreamerInfos(FALSE) was called on a writable store that holds a
\* key entry and whose flag was set, and the flag is still set
C23_Witness ==
    /\ lastOp.op = "SetStoreStreamerInfos"
    /\ f.fWritable
    /\ ~lastOp.store
    /\ lastOp.was
    /\ Len(keys[0]) > 0
    /\ f.fStoreStreamerInfos

\* the classes of the objects the document holds, and the schema records
\* the store holds for saving
Referenced == { KeyAt(p).node.Object : p \in AllKeys } \ { "" }
Emitted == IF f.fStreamerInfoNode.null THEN {} ELSE f.fStreamerInfoNode.infos

\* C24: the schema records WriteStreamerInfo emits are exactly those of the
\* (class, version) pairs referenced by objects of this document, at most
\* one per (className, classVersion); layouts the process knows but the
\* document does not use are not emitted, and nothing is emitted when schema
\* emission is disabled.
C24_EmitsReferencedSchemas ==
    lastOp.op = "WriteStreamerInfo" =>
        /\ Emitted = IF lastOp.store
                     THEN { info \in StreamerInfos : info.name \in Referenced }
                     ELSE {}
        /\ \A a, b \in Emitted :
              (a.name = b.name /\ a.classversion = b.classversion) => a = b

\* C25: a schema record written for a class at version v with k field
\* descriptors is read back by GetStreamerInfoListImpl with the same class
\* version, the same checksum and the k field descriptors in their order and
\* of their kinds.
C25_SchemaRoundTrip ==
    (lastOp.op = "GetStreamerInfoListImpl" /\ lastOp.afterWrite
       /\ f.fStoreStreamerInfos) =>
        \A info \in StreamerInfos :
            info.name \in Referenced =>
                \E r \in lastOp.list :
                    /\ r.name = info.name
                    /\ r.classversion = info.classversion
                    /\ r.checksum = info.checksum
                    /\ r.elements = info.elements

\* the file name ends with the characters of suffix
EndsWith(name, suffix) ==
    Len(name) >= Len(suffix)
    /\ SubSeq(name, Len(name) - Len(suffix) + 1, Len(name)) = suffix

\* C26: ProduceFileNames returns the file name unchanged when it ends with
\* the suffix ".json" and the file name with ".json" appended otherwise, for
\* every file name, the name ".json" and names shorter than the suffix
\* included.
C26_SuffixAppendedUnlessPresent ==
    lastOp.op = "ProduceFileNames" =>
        lastOp.fname = IF EndsWith(lastOp.filename, <<".","j","s","o","n">>)
                       THEN lastOp.filename
                       ELSE lastOp.filename \o <<".","j","s","o","n">>

\* C27: the registry of open stores (gROOT's list of files) holds a store
\* exactly from its successful open until its Close: a store that was opened
\* successfully is in it until Close is called, after Close it is not, and a
\* store whose open failed is never in it.
C27_RegistryHoldsOpenStores ==
    gen > 0 =>
        /\ f.zombie => gen \notin gListOfFiles
        /\ (~f.zombie /\ ~cur.clean /\ lastOp.op # "Close") => gen \in gListOfFiles
        /\ (~f.zombie /\ lastOp.op = "Close") => gen \notin gListOfFiles

Reads == { "ReadObjectAny", "ReadObj", "Read" }

\* C28: reading a key entry with an expected type that is not a base of the
\* type resolved from the stored payload returns null, no object, for
\* ReadObjectAny, ReadObj (which expects a TObject) and Read (which expects
\* the type of the object handed in) alike.
C28_TypeMismatchReturnsNull ==
    (/\ lastOp.op \in Reads
     /\ lastOp.stored # ""
     /\ lastOp.expected \notin { "", NullPtr }
     /\ lastOp.expected \notin BaseClasses[lastOp.stored]) =>
        lastOp.ptr = NullPtr /\ lastOp.ret = 0

\* C29: a failed decode of one key entry's payload, or a key entry without
\* payload after Delete, gives failure for that entry only: ReadObj and
\* ReadObjectAny return null and Read returns 0, while the directory lists
\* and all key entries stay as they were.
C29_DecodeFailureIsLocal ==
    (lastOp.op \in Reads /\ lastOp.stored = "") =>
        /\ lastOp.op \in { "ReadObj", "ReadObjectAny" } => lastOp.ptr = NullPtr
        /\ lastOp.op = "Read" => lastOp.ret = 0
        /\ keys = lastOp.was

\* a READ open of the file that the object destroyed just before, opened
\* with RECREATE, has written
ReadsWhatRecreateWrote ==
    /\ lastOp.op = "TJSONFile1"
    /\ lastOp.option = kREAD
    /\ lastOp.writer.alive
    /\ lastOp.writer.fOption = kRECREATE
    /\ lastOp.writer.fFilename = lastOp.filename
    /\ lastOp.written

\* the READ open gave version 1 and the UUID of the writer
SameHeader ==
    /\ lastOp.thrown = ""
    /\ t.alive
    /\ t.fVersion = 1
    /\ t.fUUID = lastOp.writer.fUUID

\* C30 as stated: a file written by a store opened with RECREATE and then
\* opened with READ yields format version 1 and the UUID of the store that
\* wrote it.
C30_HeaderRoundTripAlways ==
    ReadsWhatRecreateWrote => SameHeader

\* C30: a file written by a store opened with RECREATE on which the
\* kReproducible bit was not set, and then opened with READ by a process
\* that may read the file, yields format version 1 and the UUID of the
\* store that wrote it.
C30_HeaderRoundTrip ==
    (/\ ReadsWhatRecreateWrote
     /\ ~lastOp.writer.kReproducible
     /\ lastOp.before[lastOp.filename].r) => SameHeader

\* a READ open loaded the UUID of the RECREATE store that wrote the file
C30_Witness ==
    /\ ReadsWhatRecreateWrote
    /\ ~lastOp.writer.kReproducible
    /\ lastOp.before[lastOp.filename].r
    /\ lastOp.loaded
    /\ t.fUUID = 2
    /\ lastOp.writer.fUUID = 2

\* a READ open of the file that the object destroyed just before, with the
\* kReproducible bit set, has written, by a process that may read the file
ReadsReproducible ==
    /\ lastOp.op = "TJSONFile1"
    /\ lastOp.option = kREAD
    /\ lastOp.writer.alive
    /\ lastOp.writer.kReproducible
    /\ lastOp.writer.fFilename = lastOp.filename
    /\ lastOp.written
    /\ lastOp.before[lastOp.filename].r

\* C31: when the kReproducible bit is set on the writing store before it is
\* saved, the UUID stored in the file is the all-zero UUID whatever the
\* store's own UUID is, and a READ open of the file returns the all-zero
\* UUID.
C31_ReproducibleUUIDIsZero ==
    /\ (lastOp.op = "~TJSONFile1" /\ lastOp.was.kReproducible /\ lastOp.before # fs) =>
          /\ fs[lastOp.was.fFilename].doc.json
          /\ fs[lastOp.was.fFilename].doc.uuid = 0
    /\ ReadsReproducible =>
          /\ lastOp.thrown = ""
          /\ lastOp.loaded
          /\ t.fUUID = 0

\* a READ open returned the all-zero UUID from a file written by a store
\* whose own UUID is 2 and whose kReproducible bit was set
C31_Witness ==
    /\ ReadsReproducible
    /\ lastOp.writer.fUUID = 2
    /\ lastOp.before[lastOp.filename].doc.uuid = 0
    /\ t.alive
    /\ t.fUUID = 0

\* C32: a target equal to the null device bypasses the existence check and
\* is treated as CREATE whatever mode was asked for (CREATE, RECREATE,
\* UPDATE, READ or an unrecognized one): the open succeeds with an empty
\* writable document, the device is not unlinked and nothing is parsed from
\* it.
C32_NullDeviceIsCreate ==
    (lastOp.op = "Open" /\ lastOp.filename = <<"/","d","e","v","/","n","u","l","l">>) =>
        /\ ~f.zombie
        /\ f.fWritable
        /\ f.fOption = kCREATE
        /\ f.kDevNull
        /\ lastOp.init
        /\ lastOp.create
        /\ Tree(0) = << >>
        /\ fs = lastOp.before
        /\ gen \in gListOfFiles

\* /dev/null was opened with RECREATE, with READ and with an unrecognized
\* mode, and the store is writable
C32_Witness ==
    /\ lastOp.op = "Open"
    /\ lastOp.filename = DevNull
    /\ ToUpper(lastOp.option) \in { kRECREATE, kREAD, <<"A","P","P","E","N","D">> }
    /\ f.fWritable
    /\ f.fOption = kCREATE
    /\ fs[DevNull].exists

\* the keys of a list in the order in which they were written: ids grow
\* with every key created (C1)
ByInsertion(list) ==
    LET n == Len(list)
        perm == CHOOSE p \in [1..n -> 1..n] :
                    /\ \A i, j \in 1..n : i # j => p[i] # p[j]
                    /\ \A i, j \in 1..n : i < j => list[p[i]].id < list[p[j]].id
    IN  [ i \in 1..n |-> list[perm[i]] ]

\* the combination of directory d the claim describes
RECURSIVE InsertionTree(_)
InsertionTree(d) ==
    LET list == ByInsertion(keys[d]) IN
    [ i \in 1..Len(list) |->
        LET k == list[i]
            sub == IF k.subdir THEN FindKeyDir(d, k.id) ELSE -1
        IN  [ name |-> k.name, cycle |-> k.cycle,
              Keys |-> IF sub > 0 THEN InsertionTree(sub) ELSE << >> ] ]

\* C33: Combine emits the entries of a directory in exactly the order in
\* which they were written into it, also when several entries share one
\* name, and nests, for each subdirectory entry, the combination of that
\* subdirectory as the "Keys" value of the entry.
C33_CombineKeepsInsertionOrder ==
    lastOp.op = "CombineNodesTree" => lastOp.out = InsertionTree(0)

\* the number of elements before the first one without a type tag
RECURSIVE RegularPrefix(_)
RegularPrefix(elems) ==
    IF elems = << >> \/ Head(elems).Object = "" THEN 0
    ELSE 1 + RegularPrefix(Tail(elems))

\* C34: Decompose (ReadKeysList) materializes one key entry, with the next
\* global id, for each array element up to but not including the first
\* element without a recognizable type tag, and stops there: the elements
\* after it produce no key entry.
C34_DecomposeStopsAtIrregular ==
    (lastOp.op = "ReadKeysList" /\ ~lastOp.topnode.null) =>
        LET n == RegularPrefix(lastOp.topnode.elems)
            d == lastOp.dir
        IN  /\ lastOp.nkeys = n
            /\ Len(keys[d]) = Len(lastOp.was[d]) + n
            /\ f.fKeyCounter = lastOp.counterWas + n
            /\ \A e \in DOMAIN keys \ {d} : keys[e] = lastOp.was[e]

\* C35: after a successful (non-zombie) open in any mode IsOpen() is true,
\* it stays true under every operation but Close, and after Close it is
\* false.
C35_IsOpenFromOpenToClose ==
    /\ []((lastOp.op = "Open" /\ ~f.zombie) => IsOpen(f))
    /\ [][(IsOpen(f) /\ gen' = gen /\ lastOp'.op # "Close") => IsOpen(f')]_vars
    /\ [](lastOp.op = "Close" => ~IsOpen(f))

\* the places in the list of directory m of the keys whose id is id
KeysWithId(m, id) == { i \in 1..Len(keys[m]) : keys[m][i].id = id }

\* the directory d and its key name each other: the list of d's mother holds
\* exactly one key with d's seek, that key is marked as subdirectory,
\* FindDirKey(d) is that key and FindKeyDir(mother, seek) is d
DirIdentity(d) ==
    LET m  == dirs[d].mother
        id == dirs[d].seekDir
    IN  /\ Cardinality(KeysWithId(m, id)) = 1
        /\ FindDirKey(d) \in KeysWithId(m, id)
        /\ keys[m][FindDirKey(d)].subdir
        /\ FindKeyDir(m, id) = d

\* C36: a directory made by DirCreateEntry, or materialized by reading its
\* key with ReadObj or ReadObjectAny however often, has in its parent exactly
\* one key with its id, marked as subdirectory; FindDirKey(dir) is that key
\* and FindKeyDir(parent, id) is that directory, whatever else the parent holds.
C36_SubdirectoryIdentity ==
    \A d \in 1..Len(dirs) :
        (dirs[d].mother \in DOMAIN keys
           /\ KeysWithId(dirs[d].mother, dirs[d].seekDir) # {})
        => DirIdentity(d)

\* C37: a key entry constructed from the node that a written key entry
\* (StoreKeyAttributes and StoreObject) produced has the written key's name,
\* its title (an absent title stays empty), its cycle, and as class name the
\* type tag of the payload.
C37_KeyRoundTrip ==
    (lastOp.op = "TKeyJSON3" /\ lastOp.from.node.Object # "")
    => /\ ~lastOp.thrown
       /\ lastOp.key.name = lastOp.from.name
       /\ lastOp.key.title = lastOp.from.title
       /\ lastOp.key.cycle = lastOp.from.cycle
       /\ lastOp.key.cls = lastOp.from.node.Object

\* a key with a title and a second cycle has been read back from its node
C37_Witness ==
    /\ lastOp.op = "TKeyJSON3"
    /\ lastOp.from.node.Object # ""
    /\ lastOp.from.title # ""
    /\ lastOp.from.cycle > 1
    /\ lastOp.key.title = lastOp.from.title

\* C38: on a store that is a zombie, or that Close has just been called on,
\* a call of ReOpen, Close or SetStoreStreamerInfos leaves the writable flag
\* unset and writes no file.
C38_DeadStoreStaysReadOnly ==
    [][ ( /\ gen' = gen
          /\ (f.zombie \/ lastOp.op = "Close")
          /\ lastOp'.op \in {"ReOpen", "Close", "SetStoreStreamerInfos"} )
        => (~f'.fWritable /\ fs' = fs) ]_vars

\* C39: DirWriteKeys(dir) updates the attributes of every key entry of the
\* directory dir, and leaves the key entries of every other directory (of
\* the root, when dir is a subdirectory) as they were.
C39_DirWriteKeysOnlyItsDirectory ==
    lastOp.op = "DirWriteKeys" =>
        \A d \in DOMAIN keys :
            keys[d] = IF d = lastOp.dir
                      THEN [ i \in 1..Len(lastOp.was[d]) |->
                               StoreKeyAttributes(lastOp.was[d][i]) ]
                      ELSE lastOp.was[d]

====
